---- MODULE Spec2Model ----
(***************************************************************************)
(* A model of the Cabrillo log parser (src/src/lib.rs).                    *)
(*                                                                         *)
(* Text is modelled as a sequence of one-character strings, so that the    *)
(* grammars (nom combinators and regular expressions in the source) work   *)
(* on characters as the code does.                                         *)
(***************************************************************************)
EXTENDS Integers, Sequences, FiniteSets, TLC

\* ------------------------------------------------------------------
\* Characters and text helpers
\* ------------------------------------------------------------------

Digits == {"0","1","2","3","4","5","6","7","8","9"}

UpperCase == {"A","B","C","D","E","F","G","H","I","J","K","L","M",
              "N","O","P","Q","R","S","T","U","V","W","X","Y","Z"}

LowerCase == {"a","b","c","d","e","f","g","h","i","j","k","l","m",
              "n","o","p","q","r","s","t","u","v","w","x","y","z"}

Alphanumeric == UpperCase \cup LowerCase \cup Digits

\* char::is_whitespace restricted to ASCII, as str::trim sees it
WhiteSpace == {" ", "\t", "\r", "\n"}

DigitValue(c) ==
    CASE c = "0" -> 0 [] c = "1" -> 1 [] c = "2" -> 2 [] c = "3" -> 3
      [] c = "4" -> 4 [] c = "5" -> 5 [] c = "6" -> 6 [] c = "7" -> 7
      [] c = "8" -> 8 [] c = "9" -> 9

\* Option<T> and Result<T, E>
None == <<>>

Some(x) == <<x>>

Ok(x) == [ok |-> TRUE, v |-> x]

Err(e) == [ok |-> FALSE, e |-> e]

\* CabrilloErrorKind
ParseError == "ParseError"

IoError == "IoError"

\* CabrilloError::new
CabrilloError(tag, line, kind) == [tag |-> tag, line |-> line, kind |-> kind]

\* the first index j >= i with j past the end of s or s[j] outside set
RunEnd(s, i, set) ==
    CHOOSE j \in i..(Len(s) + 1) :
        /\ \A k \in i..(j - 1) : s[k] \in set
        /\ (j = Len(s) + 1 \/ s[j] \notin set)

Slice(s, i, j) == SubSeq(s, i, j - 1)

StartsWith(s, i, t) ==
    /\ i + Len(t) - 1 <= Len(s)
    /\ \A k \in 1..Len(t) : s[i + k - 1] = t[k]

\* str::trim
Trim(s) ==
    LET b == RunEnd(s, 1, WhiteSpace)
        e == IF b > Len(s) THEN b - 1
             ELSE CHOOSE j \in b..Len(s) :
                      /\ s[j] \notin WhiteSpace
                      /\ \A k \in (j + 1)..Len(s) : s[k] \in WhiteSpace
    IN  SubSeq(s, b, e)

\* the first index j >= i with j past the end of s or s[j] in set
Find(s, i, set) ==
    CHOOSE j \in i..(Len(s) + 1) :
        /\ \A k \in i..(j - 1) : s[k] \notin set
        /\ (j = Len(s) + 1 \/ s[j] \in set)

\* the value of at most nine decimal digits
RECURSIVE DecimalValue(_)
DecimalValue(ds) ==
    IF ds = <<>> THEN 0
    ELSE 10 * DecimalValue(SubSeq(ds, 1, Len(ds) - 1)) + DigitValue(ds[Len(ds)])

\* A u32 is kept as its decimal digits without leading zeros: the values above
\* 2^31 - 1 are then representable, and "007" and "7" are the same number.
StripZeros(ds) ==
    LET j == RunEnd(ds, 1, {"0"})
    IN  IF j > Len(ds) THEN <<"0">> ELSE SubSeq(ds, j, Len(ds))

RECURSIVE DigitsLeq(_, _)
DigitsLeq(a, b) ==
    IF a = <<>> THEN TRUE
    ELSE IF DigitValue(a[1]) # DigitValue(b[1])
         THEN DigitValue(a[1]) < DigitValue(b[1])
         ELSE DigitsLeq(Tail(a), Tail(b))

U32Max == <<"4","2","9","4","9","6","7","2","9","5">>

FitsU32(ds) ==
    LET c == StripZeros(ds)
    IN  Len(c) < Len(U32Max) \/ (Len(c) = Len(U32Max) /\ DigitsLeq(c, U32Max))

\* <u32 as FromStr>::from_str: an optional '+', then one or more digits, no overflow
ParseU32(s) ==
    LET ds == IF s # <<>> /\ s[1] = "+" THEN Tail(s) ELSE s
    IN  IF ds # <<>> /\ (\A k \in 1..Len(ds) : ds[k] \in Digits) /\ FitsU32(ds)
        THEN Ok(StripZeros(ds))
        ELSE Err(ParseError)

\* ------------------------------------------------------------------
\* Tag grammar
\* ------------------------------------------------------------------

is_cabrillo_tag == UpperCase \cup Digits \cup {"-", "'", " "}

\* nom::character::complete::not_line_ending from position i: the text up to the
\* first '\r' or '\n'; a '\r' that does not start "\r\n" is an error
not_line_ending(s, i) ==
    LET j == Find(s, i, {"\r", "\n"})
    IN  IF j <= Len(s) /\ s[j] = "\r" /\ ~StartsWith(s, j, <<"\r", "\n">>)
        THEN [ok |-> FALSE]
        ELSE [ok |-> TRUE, out |-> Slice(s, i, j), next |-> j]

\* cabrillo_tag: alt!(complete!(separated_pair!(take_while1!(is_cabrillo_tag),
\* tag!(": "), not_line_ending)) | map!(tag!("END-OF-LOG"), |s| (s, ""))).
\* take_while1! is the streaming parser: a run that reaches the end of the input
\* is Incomplete, which complete! turns into an error.
cabrillo_tag(line) ==
    LET j == RunEnd(line, 1, is_cabrillo_tag)
        v == not_line_ending(line, j + 2)
    IN  IF j > 1 /\ j <= Len(line) /\ StartsWith(line, j, <<":"," ">>) /\ v.ok
        THEN [ok |-> TRUE, tag |-> Slice(line, 1, j), value |-> v.out]
        ELSE IF StartsWith(line, 1, <<"E","N","D","-","O","F","-","L","O","G">>)
             THEN [ok |-> TRUE, tag |-> <<"E","N","D","-","O","F","-","L","O","G">>, value |-> <<>>]
             ELSE [ok |-> FALSE]

\* ------------------------------------------------------------------
\* Primitive grammars
\* ------------------------------------------------------------------

\* a FromStr match over string literals: table is a set of <<literal, variant>>
FromStrTable(table, s) ==
    IF \E p \in table : p[1] = s
    THEN Ok((CHOOSE p \in table : p[1] = s)[2])
    ELSE Err(ParseError)

\* impl FromStr for Band
BandTable ==
    { <<<<"A","L","L">>, "All">>, <<<<"1","6","0","M">>, "Band160M">>, <<<<"8","0","M">>, "Band80M">>,
      <<<<"4","0","M">>, "Band40M">>, <<<<"2","0","M">>, "Band20M">>, <<<<"1","5","M">>, "Band15M">>,
      <<<<"1","0","M">>, "Band10M">>, <<<<"6","M">>, "Band6M">>, <<<<"4","M">>, "Band4M">>,
      <<<<"2","M">>, "Band2M">>, <<<<"2","2","2">>, "Band222">>, <<<<"4","3","2">>, "Band432">>,
      <<<<"9","0","2">>, "Band902">>, <<<<"1",".","2","G">>, "Band1_2G">>, <<<<"2",".","3","G">>, "Band2_3G">>,
      <<<<"3",".","4","G">>, "Band3_4G">>, <<<<"5",".","7","G">>, "Band5_7G">>, <<<<"1","0","G">>, "Band10G">>,
      <<<<"2","4","G">>, "Band24G">>, <<<<"4","7","G">>, "Band47G">>, <<<<"7","5","G">>, "Band75G">>,
      <<<<"1","2","3","G">>, "Band123G">>, <<<<"1","3","4","G">>, "Band134G">>, <<<<"2","4","1","G">>, "Band241G">>,
      <<<<"L","I","G","H","T">>, "Light">>, <<<<"V","H","F","-","3","-","B","A","N","D">>, "Vhf3Band">>,
      <<<<"V","H","F","-","F","M","-","O","N","L","Y">>, "VhfFmOnly">> }

Band_from_str(s) == FromStrTable(BandTable, s)

\* enum Frequency
Khz(freq) == <<"Khz", freq>>

Light == <<"Light">>

\* the guards of Band::try_from, in the order of the match arms:
\* <<low kHz, high kHz, band>>
BandRanges ==
    << <<1800, 2000, "Band160M">>,
       <<3500, 4000, "Band80M">>,
       <<7000, 7300, "Band40M">>,
       <<14000, 14350, "Band20M">>,
       <<21000, 21450, "Band15M">>,
       <<28000, 29700, "Band10M">>,
       <<50000, 54000, "Band6M">>,
       <<70000, 70500, "Band4M">>,
       <<144000, 148000, "Band2M">>,
       <<219000, 225000, "Band222">>,
       <<420000, 450000, "Band432">>,
       <<902000, 928000, "Band902">>,
       <<1240000, 1300000, "Band1_2G">>,
       <<2390000, 2450000, "Band2_3G">>,
       <<3300000, 3500000, "Band3_4G">>,
       <<5650000, 5925000, "Band5_7G">>,
       <<10000000, 10500000, "Band10G">>,
       <<24000000, 24250000, "Band24G">>,
       <<47000000, 47200000, "Band47G">>,
       <<76000000, 81000000, "Band75G">>,
       <<122250000, 123000000, "Band123G">>,
       <<134000000, 141000000, "Band134G">>,
       <<241000000, 250000000, "Band241G">> >>

\* InBandRange with the upper limit left out of the band
InBandRange_exclusive(freq, range) ==
    /\ Len(freq) < Len(U32Max)
    /\ DecimalValue(freq) >= range[1]
    /\ DecimalValue(freq) < range[2]

\* freq >= low && freq <= high, for a u32 kept as digits
InBandRange(freq, range) ==
    /\ Len(freq) < Len(U32Max)
    /\ DecimalValue(freq) >= range[1]
    /\ DecimalValue(freq) <= range[2]

\* freq >= 300000000
IsLightFrequency(freq) ==
    Len(freq) = Len(U32Max) \/ DecimalValue(freq) >= 300000000

\* impl TryFrom<Frequency> for Band: the first arm whose guard holds
Band_try_from(other) ==
    IF other = Light THEN Ok("Light")
    ELSE LET freq == other[2]
             hits == {i \in 1..Len(BandRanges) : InBandRange(freq, BandRanges[i])}
         IN  IF hits # {}
             THEN Ok(BandRanges[CHOOSE i \in hits : \A j \in hits : i <= j][3])
             ELSE IF IsLightFrequency(freq) THEN Ok("Light")
             ELSE Err(ParseError)

\* impl FromStr for Mode
ModeTable ==
    { <<<<"C","W">>, "Cw">>, <<<<"D","I","G","I">>, "Digital">>, <<<<"F","M">>, "Fm">>, <<<<"R","Y">>, "Rtty">>,
      <<<<"R","T","T","Y">>, "Rtty">>, <<<<"P","H">>, "Phone">>, <<<<"S","S","B">>, "Phone">>,
      <<<<"M","I","X","E","D">>, "Mixed">> }

Mode_from_str(s) == FromStrTable(ModeTable, s)

\* struct SignalReport(u8, u8, u8)
SignalReport(readability, strength, tone) == <<readability, strength, tone>>

\* u8::from_str_radix(c, 10) for a one-character string
U8FromChar(c) == IF c \in Digits THEN Ok(DigitValue(c)) ELSE Err(ParseError)

\* SignalReport::from_str without the lower limit of the readability
SignalReport_from_str_zero(s) ==
    IF Len(s) < 2 \/ Len(s) > 3 THEN Err(ParseError)
    ELSE LET readability == U8FromChar(s[1])
             strength == U8FromChar(s[2])
             tone == IF Len(s) >= 3 THEN U8FromChar(s[3]) ELSE Ok(0)
         IN  IF ~readability.ok \/ ~strength.ok \/ ~tone.ok THEN Err(ParseError)
             ELSE IF /\ readability.v <= 5
                     /\ strength.v > 0 /\ strength.v <= 9
                     /\ tone.v <= 9
                  THEN Ok(SignalReport(readability.v, strength.v, tone.v))
                  ELSE Err(ParseError)

\* impl FromStr for SignalReport
SignalReport_from_str(s) ==
    IF Len(s) < 2 \/ Len(s) > 3 THEN Err(ParseError)
    ELSE LET readability == U8FromChar(s[1])
             strength == U8FromChar(s[2])
             tone == IF Len(s) >= 3 THEN U8FromChar(s[3]) ELSE Ok(0)
         IN  IF ~readability.ok \/ ~strength.ok \/ ~tone.ok THEN Err(ParseError)
             ELSE IF /\ readability.v > 0 /\ readability.v <= 5
                     /\ strength.v > 0 /\ strength.v <= 9
                     /\ tone.v <= 9
                  THEN Ok(SignalReport(readability.v, strength.v, tone.v))
                  ELSE Err(ParseError)

\* impl FromStr for OperatorCategory
OperatorCategoryTable ==
    { <<<<"S","I","N","G","L","E","-","O","P">>, "SingleOp">>, <<<<"M","U","L","T","I","-","O","P">>, "MultiOp">>,
      <<<<"C","H","E","C","K","L","O","G">>, "CheckLog">> }

\* impl FromStr for PowerCategory
PowerCategoryTable == { <<<<"H","I","G","H">>, "High">>, <<<<"L","O","W">>, "Low">>, <<<<"Q","R","P">>, "Qrp">> }

\* impl FromStr for StationCategory
StationCategoryTable ==
    { <<<<"F","I","X","E","D">>, "Fixed">>, <<<<"M","O","B","I","L","E">>, "Mobile">>, <<<<"P","O","R","T","A","B","L","E">>, "Portable">>,
      <<<<"R","O","V","E","R">>, "Rover">>, <<<<"R","O","V","E","R","-","L","I","M","I","T","E","D">>, "RoverLimited">>,
      <<<<"R","O","V","E","R","-","U","N","L","I","M","I","T","E","D">>, "RoverUnlimited">>, <<<<"E","X","P","E","D","I","T","I","O","N">>, "Expedition">>,
      <<<<"H","Q">>, "Hq">>, <<<<"S","C","H","O","O","L">>, "School">> }

\* impl FromStr for TimeCategory
TimeCategoryTable ==
    { <<<<"6","-","H","O","U","R","S">>, "Hours6">>, <<<<"1","2","-","H","O","U","R","S">>, "Hours12">>, <<<<"2","4","-","H","O","U","R","S">>, "Hours24">> }

\* impl FromStr for TransmitterCategory
TransmitterCategoryTable ==
    { <<<<"O","N","E">>, "One">>, <<<<"T","W","O">>, "Two">>, <<<<"L","I","M","I","T","E","D">>, "Limited">>,
      <<<<"U","N","L","I","M","I","T","E","D">>, "Unlimited">>, <<<<"S","W","L">>, "Swl">> }

\* impl FromStr for OverlayCategory
OverlayCategoryTable ==
    { <<<<"C","L","A","S","S","I","C">>, "Classic">>, <<<<"R","O","O","K","I","E">>, "Rookie">>, <<<<"T","B","-","W","I","R","E","S">>, "TbWires">>,
      <<<<"N","O","V","I","C","E","-","T","E","C","H">>, "NoviceTech">>, <<<<"O","V","E","R","-","5","0">>, "Over50">> }

\* cabrillo_email: re_match_static!
\*   ^([a-zA-Z0-9_\-\.]+)@([a-zA-Z0-9_\-\.]+)\.([a-zA-Z]{2,5})$
EmailChars == Alphanumeric \cup {"_", "-", "."}

cabrillo_email(s) ==
    LET at == Find(s, 1, {"@"})
        tld == CHOOSE j \in 1..(Len(s) + 1) :
                   RunEnd(s, j, UpperCase \cup LowerCase) = Len(s) + 1
                   /\ (j = 1 \/ s[j - 1] \notin UpperCase \cup LowerCase)
    IN  /\ at > 1 /\ at <= Len(s)
        /\ \A k \in 1..(at - 1) : s[k] \in EmailChars
        /\ Len(s) - tld + 1 >= 2 /\ Len(s) - tld + 1 <= 5
        /\ tld - 1 > at + 1
        /\ s[tld - 1] = "."
        /\ \A k \in (at + 1)..(tld - 2) : s[k] \in EmailChars

\* cabrillo_grid_locator: re_match_static!
\*   ^([A-Ra-r]{2})([0-9]{2})([A-Ra-r]{2}){0,1}$
GridLetters ==
    {"A","B","C","D","E","F","G","H","I","J","K","L","M","N","O","P","Q","R",
     "a","b","c","d","e","f","g","h","i","j","k","l","m","n","o","p","q","r"}

cabrillo_grid_locator(s) ==
    /\ Len(s) \in {4, 6}
    /\ s[1] \in GridLetters /\ s[2] \in GridLetters
    /\ s[3] \in Digits /\ s[4] \in Digits
    /\ Len(s) = 6 => (s[5] \in GridLetters /\ s[6] \in GridLetters)

\* whether s[i..i+n-1] are all in set
AllIn(s, i, n, set) ==
    /\ i + n - 1 <= Len(s)
    /\ \A k \in i..(i + n - 1) : s[k] \in set

\* the outcome of a nom parser started at position i of s: the matched text and
\* the position that follows it
Matched(s, from, to) == [ok |-> TRUE, out |-> Slice(s, from, to), next |-> to]

NoMatch == [ok |-> FALSE]

\* re_find_static!: the leftmost match at or after position i; what precedes
\* the match is skipped. ends[p] is the position after the match that starts
\* at p, or 0 when there is none.
ReFind(s, i, ends) ==
    LET starts == {p \in DOMAIN ends : ends[p] # 0}
    IN  IF starts = {} THEN NoMatch
        ELSE LET p == CHOOSE q \in starts : \A r \in starts : q <= r
             IN  Matched(s, p, ends[p])

\* ([0-9]{4})-([0-9]{2})-([0-9]{2}) ([0-9]{4})
DatetimeEnd(s, p) ==
    IF /\ AllIn(s, p, 4, Digits) /\ AllIn(s, p + 4, 1, {"-"})
       /\ AllIn(s, p + 5, 2, Digits) /\ AllIn(s, p + 7, 1, {"-"})
       /\ AllIn(s, p + 8, 2, Digits) /\ AllIn(s, p + 10, 1, {" "})
       /\ AllIn(s, p + 11, 4, Digits)
    THEN p + 15 ELSE 0

cabrillo_datetime(s, i) == ReFind(s, i, [p \in i..Len(s) |-> DatetimeEnd(s, p)])

\* ((@{0,1})([A-Za-z0-9]{3,8})(/[A-Za-z0-9]{1,8}){0,1}), greedy
CallsignEnd(s, p) ==
    LET q == IF s[p] = "@" THEN p + 1 ELSE p
        run == RunEnd(s, q, Alphanumeric) - q
        e1 == q + (IF run > 8 THEN 8 ELSE run)
        run2 == RunEnd(s, e1 + 1, Alphanumeric) - (e1 + 1)
    IN  IF run < 3 THEN 0
        ELSE IF e1 <= Len(s) /\ s[e1] = "/" /\ run2 >= 1
             THEN e1 + 1 + (IF run2 > 8 THEN 8 ELSE run2)
             ELSE e1

cabrillo_callsign(s, i) == ReFind(s, i, [p \in i..Len(s) |-> CallsignEnd(s, p)])

\* cabrillo_mode: alt!(tag!("CW") | tag!("PH") | tag!("FM") | tag!("RY") | tag!("DG"))
cabrillo_mode(s, i) ==
    IF \E t \in {<<"C","W">>, <<"P","H">>, <<"F","M">>, <<"R","Y">>, <<"D","G">>} : StartsWith(s, i, t)
    THEN Matched(s, i, i + 2) ELSE NoMatch

\* nom::character::complete::digit1
digit1(s, i) ==
    LET j == RunEnd(s, i, Digits)
    IN  IF j > i THEN Matched(s, i, j) ELSE NoMatch

\* nom::character::complete::alphanumeric1
alphanumeric1(s, i) ==
    LET j == RunEnd(s, i, Alphanumeric)
    IN  IF j > i THEN Matched(s, i, j) ELSE NoMatch

\* nom::character::complete::multispace0: the position after the white space at i
multispace0(s, i) == RunEnd(s, i, WhiteSpace)

Field(kind, s, i) ==
    CASE kind = "digit1" -> digit1(s, i)
      [] kind = "cabrillo_mode" -> cabrillo_mode(s, i)
      [] kind = "cabrillo_datetime" -> cabrillo_datetime(s, i)
      [] kind = "cabrillo_callsign" -> cabrillo_callsign(s, i)
      [] kind = "alphanumeric1" -> alphanumeric1(s, i)

\* sep!(multispace0, tuple!(...)): each parser of the tuple runs after the white
\* space before it; what follows the last field is left unread
RECURSIVE SepTuple(_, _, _)
SepTuple(kinds, s, i) ==
    IF kinds = <<>> THEN [ok |-> TRUE, out |-> <<>>]
    ELSE LET f == Field(Head(kinds), s, multispace0(s, i))
         IN  IF ~f.ok THEN [ok |-> FALSE]
             ELSE LET rest == SepTuple(Tail(kinds), s, f.next)
                  IN  IF ~rest.ok THEN [ok |-> FALSE]
                      ELSE [ok |-> TRUE, out |-> <<f.out>> \o rest.out]

cabrillo_qso_format1(value) ==
    SepTuple(<<"digit1", "cabrillo_mode", "cabrillo_datetime", "cabrillo_callsign",
               "alphanumeric1", "alphanumeric1", "cabrillo_callsign",
               "alphanumeric1", "alphanumeric1">>, value, 1)

cabrillo_qso_format2(value) ==
    SepTuple(<<"digit1", "cabrillo_mode", "cabrillo_datetime", "cabrillo_callsign",
               "alphanumeric1", "cabrillo_callsign", "alphanumeric1">>, value, 1)

\* cabrillo_offtime: separated_pair!(cabrillo_datetime, char!(' '), cabrillo_datetime)
cabrillo_offtime(s) ==
    LET a == cabrillo_datetime(s, 1)
        b == cabrillo_datetime(s, a.next + 1)
    IN  IF a.ok /\ AllIn(s, a.next, 1, {" "}) /\ b.ok
        THEN [ok |-> TRUE, out |-> <<a.out, b.out>>]
        ELSE [ok |-> FALSE]

IsLeapYear(y) == (y % 4 = 0 /\ y % 100 # 0) \/ y % 400 = 0

DaysInMonth(y, m) ==
    IF m = 2 THEN (IF IsLeapYear(y) THEN 29 ELSE 28)
    ELSE IF m \in {4, 6, 9, 11} THEN 30 ELSE 31

\* NaiveDateTime::parse_from_str(s, "%Y-%m-%d %H%M") for a text cabrillo_datetime
\* matched: the fields must name a day of the calendar and a minute of the day
NaiveDateTime_parse_from_str(s) ==
    LET y  == DecimalValue(SubSeq(s, 1, 4))
        mo == DecimalValue(SubSeq(s, 6, 7))
        d  == DecimalValue(SubSeq(s, 9, 10))
        h  == DecimalValue(SubSeq(s, 12, 13))
        mi == DecimalValue(SubSeq(s, 14, 15))
    IN  IF /\ mo >= 1 /\ mo <= 12
           /\ d >= 1 /\ d <= DaysInMonth(y, mo)
           /\ h <= 23 /\ mi <= 59
        THEN Ok([year |-> y, month |-> mo, day |-> d, hour |-> h, minute |-> mi])
        ELSE Err(ParseError)

\* <f32 as FromStr>::from_str for plain decimal notation: an optional sign,
\* digits, an optional '.', digits, with a digit on one side at least. The
\* value is kept as sign, integer digits and fraction digits without
\* insignificant zeros. (Exponents, "inf" and "nan" are not modelled.)
StripTrailingZeros(ds) ==
    IF \A k \in 1..Len(ds) : ds[k] = "0" THEN <<>>
    ELSE SubSeq(ds, 1, CHOOSE j \in 1..Len(ds) :
                           ds[j] # "0" /\ \A k \in (j + 1)..Len(ds) : ds[k] = "0")

F32(negative, int, frac) ==
    LET i == StripZeros(int)
        f == StripTrailingZeros(frac)
    IN  [negative |-> negative /\ ~(i = <<"0">> /\ f = <<>>), int |-> i, frac |-> f]

ParseF32(s) ==
    LET signed == s # <<>> /\ s[1] \in {"+", "-"}
        body == IF signed THEN Tail(s) ELSE s
        dot == Find(body, 1, {"."})
        int == Slice(body, 1, dot)
        frac == IF dot > Len(body) THEN <<>> ELSE SubSeq(body, dot + 1, Len(body))
    IN  IF /\ \A k \in 1..Len(int) : int[k] \in Digits
           /\ \A k \in 1..Len(frac) : frac[k] \in Digits
           /\ Len(int) + Len(frac) > 0
        THEN Ok(F32(signed /\ s[1] = "-", int, frac))
        ELSE Err(ParseError)

\* ------------------------------------------------------------------
\* QSO lines
\* ------------------------------------------------------------------

\* FormatPair without the space
FormatPair_nospace(a, b) == a \o b

\* format!("{} {}", a, b)
FormatPair(a, b) == a \o <<" ">> \o b

\* SignalReportOk that keeps only the reports with a tone
SignalReportOk_tone(s) ==
    LET r == SignalReport_from_str(s)
    IN  IF r.ok /\ Len(s) = 3 THEN Some(r.v) ELSE None

\* Option<SignalReport> from Result::ok
SignalReportOk(s) ==
    LET r == SignalReport_from_str(s)
    IN  IF r.ok THEN Some(r.v) ELSE None

\* the conversions parse_qso_format1 and parse_qso_format2 share: frequency,
\* mode and timestamp, each failing with an error of the line's tag
QsoHeader(line_no, tag, qso_data) ==
    LET frequency == ParseU32(qso_data[1])
        mode == Mode_from_str(qso_data[2])
        timestamp == NaiveDateTime_parse_from_str(qso_data[3])
    IN  IF ~frequency.ok \/ ~mode.ok \/ ~timestamp.ok
        THEN Err(CabrilloError(tag, line_no, ParseError))
        ELSE Ok([frequency |-> Khz(frequency.v), mode |-> mode.v,
                 datetime |-> timestamp.v])

\* the QSO record of parse_qso_format1 from the converted fields and the
\* nine fields of the line
Qso_format1(head, qso_data) ==
    IF ~head.ok THEN head
    ELSE Ok([frequency |-> head.v.frequency,
                 mode |-> head.v.mode,
                 datetime |-> head.v.datetime,
                 call_sent |-> qso_data[4],
                 rst_sent |-> SignalReportOk(qso_data[5]),
                 exch_sent |-> FormatPair(qso_data[5], qso_data[6]),
                 call_recvd |-> qso_data[7],
                 rst_recvd |-> SignalReportOk(qso_data[8]),
                 exch_recvd |-> FormatPair(qso_data[8], qso_data[9]),
                 transmitter_id |-> FALSE])

\* parse_qso_format1 from the grammar's result m
QsoData_format1(line_no, tag, m) ==
    IF ~m.ok THEN Err(CabrilloError(tag, line_no, ParseError))
    ELSE Qso_format1(QsoHeader(line_no, tag, m.out), m.out)

\* CabrilloLog::parse_qso_format1
parse_qso_format1(line_no, tag, value) ==
    QsoData_format1(line_no, tag, cabrillo_qso_format1(value))

\* the QSO record of parse_qso_format2 from the converted fields and the
\* seven fields of the line
Qso_format2(head, qso_data) ==
    IF ~head.ok THEN head
    ELSE Ok([frequency |-> head.v.frequency,
                 mode |-> head.v.mode,
                 datetime |-> head.v.datetime,
                 call_sent |-> qso_data[4],
                 rst_sent |-> None,
                 exch_sent |-> qso_data[5],
                 call_recvd |-> qso_data[6],
                 rst_recvd |-> None,
                 exch_recvd |-> qso_data[7],
                 transmitter_id |-> FALSE])

\* parse_qso_format2 from the grammar's result m
QsoData_format2(line_no, tag, m) ==
    IF ~m.ok THEN Err(CabrilloError(tag, line_no, ParseError))
    ELSE Qso_format2(QsoHeader(line_no, tag, m.out), m.out)

\* CabrilloLog::parse_qso_format2
parse_qso_format2(line_no, tag, value) ==
    QsoData_format2(line_no, tag, cabrillo_qso_format2(value))

\* ParseQso without the fallback
ParseQso_no_fallback(line_no, tag, value) == parse_qso_format1(line_no, tag, value)

\* Result::or_else: the first result when it is Ok, else the second
OrElse(first, second) == IF first.ok THEN first ELSE second

\* parse_qso_format1(..).or_else(|_| parse_qso_format2(..))
ParseQso(line_no, tag, value) ==
    OrElse(parse_qso_format1(line_no, tag, value),
           parse_qso_format2(line_no, tag, value))

\* ------------------------------------------------------------------
\* The log record and the tag handlers
\* ------------------------------------------------------------------

\* CabrilloLog::new
CabrilloLog_new ==
    [ version |-> F32(FALSE, <<"3">>, <<"0">>),
      callsign |-> None, contest |-> None,
      category_assisted |-> None, category_band |-> None,
      category_mode |-> None, category_operator |-> None,
      category_power |-> None, category_station |-> None,
      category_time |-> None, category_transmitter |-> None,
      category_overlay |-> None, certificate |-> None,
      claimed_score |-> None, club |-> None, created_by |-> None,
      email |-> None, grid_locator |-> None, location |-> None,
      name |-> None, address |-> None,
      operators |-> <<>>, offtimes |-> <<>>, soapbox |-> None,
      other_tags |-> <<>>, entries |-> <<>>, ignored_entries |-> <<>>,
      debug |-> FALSE ]

\* PushLine that replaces the text
PushLine_overwrite(field, value) == Some(value)

\* the address and soapbox arms: push '\n' and the value, or set the value
PushLine(field, value) ==
    IF field # None THEN Some(field[1] \o <<"\n">> \o value) ELSE Some(value)

\* value.split(|c| c == ',' || c == ' '): the pieces between separators,
\* empty pieces included
RECURSIVE SplitOperators(_)
SplitOperators(value) ==
    LET j == Find(value, 1, {",", " "})
    IN  IF j > Len(value) THEN <<value>>
        ELSE <<Slice(value, 1, j)>> \o SplitOperators(SubSeq(value, j + 1, Len(value)))

\* .filter(|call| call.len() > 0).for_each(|call| operators.push(call.trim()...))
RECURSIVE PushOperators(_, _)
PushOperators(operators, calls) ==
    IF calls = <<>> THEN operators
    ELSE PushOperators(
             IF Len(Head(calls)) > 0 THEN Append(operators, Trim(Head(calls)))
             ELSE operators,
             Tail(calls))

\* an insert that keeps the value of a key the map holds
MapInsert_keep(map, key, value) ==
    [k \in DOMAIN map \cup {key} |-> IF k \in DOMAIN map THEN map[k] ELSE value]

\* HashMap::insert
MapInsert(map, key, value) ==
    [k \in DOMAIN map \cup {key} |-> IF k = key THEN value ELSE map[k]]

\* an enumeration arm: parse the value and set the field, or fail with the tag
SetParsed(log, line_no, tag, field, parsed) ==
    IF parsed.ok THEN Ok([log EXCEPT ![field] = Some(parsed.v)])
    ELSE Err(CabrilloError(tag, line_no, parsed.e))

\* the CLAIMED-SCORE arm with the field left as it was when the value does not
\* parse
SetClaimedScore_keep(log, score) ==
    IF score.ok THEN Ok([log EXCEPT !.claimed_score = Some(score.v)]) ELSE Ok(log)

\* the CLAIMED-SCORE arm: value.parse().map_err(..).ok()
SetClaimedScore(log, score) ==
    Ok([log EXCEPT !.claimed_score = IF score.ok THEN Some(score.v) ELSE None])

\* the DEBUG arm with a flag that every DEBUG line flips
SetDebug_flip(log) == Ok([log EXCEPT !.debug = ~@])

\* the DEBUG arm: self.debug = true
SetDebug(log) == Ok([log EXCEPT !.debug = TRUE])

\* the START-OF-LOG arm
SetVersion(log, line_no, tag, parsed) ==
    IF parsed.ok THEN Ok([log EXCEPT !.version = parsed.v])
    ELSE Err(CabrilloError(tag, line_no, ParseError))

\* the OFFTIME arm from the two parsed times
PushOfftime(log, line_no, tag, start_time, stop_time) ==
    IF ~start_time.ok \/ ~stop_time.ok
    THEN Err(CabrilloError(tag, line_no, ParseError))
    ELSE Ok([log EXCEPT !.offtimes =
                Append(@, [begin |-> start_time.v, end |-> stop_time.v])])

\* the OFFTIME arm from the grammar's result
OfftimeData(log, line_no, tag, offtime) ==
    IF ~offtime.ok THEN Err(CabrilloError(tag, line_no, ParseError))
    ELSE PushOfftime(log, line_no, tag,
                     NaiveDateTime_parse_from_str(offtime.out[1]),
                     NaiveDateTime_parse_from_str(offtime.out[2]))

\* the OFFTIME arm
ParseOfftime(log, line_no, tag, value) ==
    OfftimeData(log, line_no, tag, cabrillo_offtime(value))

\* the QSO | X-QSO arm from the parsed contact: pushed to entries for QSO, to
\* ignored_entries otherwise
PushQso(log, tag, qso) ==
    IF ~qso.ok THEN qso
    ELSE IF tag = <<"Q","S","O">>
         THEN Ok([log EXCEPT !.entries = Append(@, qso.v)])
         ELSE Ok([log EXCEPT !.ignored_entries = Append(@, qso.v)])

\* the QSO | X-QSO arm with every contact pushed to entries
ParseQsoTag_entries(log, line_no, tag, value) ==
    PushQso(log, <<"Q","S","O">>, ParseQso(line_no, tag, value))

\* the QSO | X-QSO arm
ParseQsoTag(log, line_no, tag, value) ==
    PushQso(log, tag, ParseQso(line_no, tag, value))

\* the tags parse_tag has an arm for
KnownTags ==
    {<<"S","T","A","R","T","-","O","F","-","L","O","G">>, <<"C","A","L","L","S","I","G","N">>, <<"C","O","N","T","E","S","T">>, <<"C","A","T","E","G","O","R","Y","-","A","S","S","I","S","T","E","D">>, <<"C","A","T","E","G","O","R","Y","-","B","A","N","D">>,
     <<"C","A","T","E","G","O","R","Y","-","M","O","D","E">>, <<"C","A","T","E","G","O","R","Y","-","O","P","E","R","A","T","O","R">>, <<"C","A","T","E","G","O","R","Y","-","P","O","W","E","R">>, <<"C","A","T","E","G","O","R","Y","-","S","T","A","T","I","O","N">>,
     <<"C","A","T","E","G","O","R","Y","-","T","I","M","E">>, <<"C","A","T","E","G","O","R","Y","-","T","R","A","N","S","M","I","T","T","E","R">>, <<"C","A","T","E","G","O","R","Y","-","O","V","E","R","L","A","Y">>, <<"C","E","R","T","I","F","I","C","A","T","E">>,
     <<"C","L","A","I","M","E","D","-","S","C","O","R","E">>, <<"C","L","U","B">>, <<"C","R","E","A","T","E","D","-","B","Y">>, <<"E","M","A","I","L">>, <<"G","R","I","D","-","L","O","C","A","T","O","R">>, <<"L","O","C","A","T","I","O","N">>,
     <<"N","A","M","E">>, <<"A","D","D","R","E","S","S">>, <<"A","D","D","R","E","S","S","-","C","I","T","Y">>, <<"A","D","D","R","E","S","S","-","S","T","A","T","E","-","P","R","O","V","I","N","C","E">>,
     <<"A","D","D","R","E","S","S","-","P","O","S","T","A","L","C","O","D","E">>, <<"A","D","D","R","E","S","S","-","C","O","U","N","T","R","Y">>, <<"O","P","E","R","A","T","O","R","S">>, <<"O","F","F","T","I","M","E">>, <<"S","O","A","P","B","O","X">>,
     <<"Q","S","O">>, <<"X","-","Q","S","O">>, <<"D","E","B","U","G">>, <<"E","N","D","-","O","F","-","L","O","G">>}

AddressTags ==
    {<<"A","D","D","R","E","S","S">>, <<"A","D","D","R","E","S","S","-","C","I","T","Y">>, <<"A","D","D","R","E","S","S","-","S","T","A","T","E","-","P","R","O","V","I","N","C","E">>, <<"A","D","D","R","E","S","S","-","P","O","S","T","A","L","C","O","D","E">>,
     <<"A","D","D","R","E","S","S","-","C","O","U","N","T","R","Y">>}

\* the match of parse_tag on the trimmed value: the record after the line, or
\* the error
TagArm(log, line_no, tag, value) ==
    LET parse_error == CabrilloError(tag, line_no, ParseError)
    IN  CASE tag = <<"S","T","A","R","T","-","O","F","-","L","O","G">> ->
               SetVersion(log, line_no, tag, ParseF32(value))
          [] tag = <<"C","A","L","L","S","I","G","N">> -> Ok([log EXCEPT !.callsign = Some(value)])
          [] tag = <<"C","O","N","T","E","S","T">> -> Ok([log EXCEPT !.contest = Some(value)])
          [] tag = <<"C","A","T","E","G","O","R","Y","-","A","S","S","I","S","T","E","D">> ->
               IF value = <<"A","S","S","I","S","T","E","D">>
               THEN Ok([log EXCEPT !.category_assisted = Some(TRUE)])
               ELSE IF value = <<"N","O","N","-","A","S","S","I","S","T","E","D">>
               THEN Ok([log EXCEPT !.category_assisted = Some(FALSE)])
               ELSE Err(parse_error)
          [] tag = <<"C","A","T","E","G","O","R","Y","-","B","A","N","D">> ->
               SetParsed(log, line_no, tag, "category_band", Band_from_str(value))
          [] tag = <<"C","A","T","E","G","O","R","Y","-","M","O","D","E">> ->
               SetParsed(log, line_no, tag, "category_mode", Mode_from_str(value))
          [] tag = <<"C","A","T","E","G","O","R","Y","-","O","P","E","R","A","T","O","R">> ->
               SetParsed(log, line_no, tag, "category_operator",
                         FromStrTable(OperatorCategoryTable, value))
          [] tag = <<"C","A","T","E","G","O","R","Y","-","P","O","W","E","R">> ->
               SetParsed(log, line_no, tag, "category_power",
                         FromStrTable(PowerCategoryTable, value))
          [] tag = <<"C","A","T","E","G","O","R","Y","-","S","T","A","T","I","O","N">> ->
               SetParsed(log, line_no, tag, "category_station",
                         FromStrTable(StationCategoryTable, value))
          [] tag = <<"C","A","T","E","G","O","R","Y","-","T","I","M","E">> ->
               SetParsed(log, line_no, tag, "category_time",
                         FromStrTable(TimeCategoryTable, value))
          [] tag = <<"C","A","T","E","G","O","R","Y","-","T","R","A","N","S","M","I","T","T","E","R">> ->
               SetParsed(log, line_no, tag, "category_transmitter",
                         FromStrTable(TransmitterCategoryTable, value))
          [] tag = <<"C","A","T","E","G","O","R","Y","-","O","V","E","R","L","A","Y">> ->
               SetParsed(log, line_no, tag, "category_overlay",
                         FromStrTable(OverlayCategoryTable, value))
          [] tag = <<"C","E","R","T","I","F","I","C","A","T","E">> ->
               IF value = <<"Y","E","S">> THEN Ok([log EXCEPT !.certificate = Some(TRUE)])
               ELSE IF value = <<"N","O">> THEN Ok([log EXCEPT !.certificate = Some(FALSE)])
               ELSE Err(parse_error)
          [] tag = <<"C","L","A","I","M","E","D","-","S","C","O","R","E">> -> SetClaimedScore(log, ParseU32(value))
          [] tag = <<"C","L","U","B">> -> Ok([log EXCEPT !.club = Some(value)])
          [] tag = <<"C","R","E","A","T","E","D","-","B","Y">> -> Ok([log EXCEPT !.created_by = Some(value)])
          [] tag = <<"E","M","A","I","L">> ->
               \* the matched address is mapped to Some(..) and dropped
               IF cabrillo_email(value) THEN Ok(log) ELSE Err(parse_error)
          [] tag = <<"G","R","I","D","-","L","O","C","A","T","O","R">> ->
               \* the matched locator is mapped to Some(..) and dropped
               IF cabrillo_grid_locator(value) THEN Ok(log) ELSE Err(parse_error)
          [] tag = <<"L","O","C","A","T","I","O","N">> -> Ok([log EXCEPT !.location = Some(value)])
          [] tag = <<"N","A","M","E">> -> Ok([log EXCEPT !.name = Some(value)])
          [] tag \in AddressTags ->
               Ok([log EXCEPT !.address = PushLine(@, value)])
          [] tag = <<"O","P","E","R","A","T","O","R","S">> ->
               Ok([log EXCEPT !.operators = PushOperators(@, SplitOperators(value))])
          [] tag = <<"O","F","F","T","I","M","E">> -> ParseOfftime(log, line_no, tag, value)
          [] tag = <<"S","O","A","P","B","O","X">> ->
               Ok([log EXCEPT !.soapbox = PushLine(@, value)])
          [] tag \in {<<"Q","S","O">>, <<"X","-","Q","S","O">>} -> ParseQsoTag(log, line_no, tag, value)
          [] tag = <<"D","E","B","U","G">> -> SetDebug(log)
          [] tag = <<"E","N","D","-","O","F","-","L","O","G">> -> Ok(log)
          [] OTHER -> Ok([log EXCEPT !.other_tags = MapInsert(@, tag, value)])

\* CabrilloLog::parse_tag: let value = value.trim(), then the arm of the tag
parse_tag(log, line_no, tag, value) == TagArm(log, line_no, tag, Trim(value))

\* parse_line after the tag grammar: the tag's handler, or the grammar's error
TagResult(log, line_no, result) ==
    IF result.ok THEN parse_tag(log, line_no, result.tag, result.value)
    ELSE Err(CabrilloError(<<>>, line_no, ParseError))

\* parse_line with the lines of grammar errors counted from one
parse_line_one_based(log, line_no, line) ==
    IF Len(line) = 0 THEN Ok(log)
    ELSE LET result == cabrillo_tag(line)
         IN  IF result.ok THEN parse_tag(log, line_no, result.tag, result.value)
             ELSE Err(CabrilloError(<<>>, line_no + 1, ParseError))

\* CabrilloLog::parse_line
parse_line(log, line_no, line) ==
    IF Len(line) = 0 THEN Ok(log)
    ELSE TagResult(log, line_no, cabrillo_tag(line))

\* ------------------------------------------------------------------
\* The line driver
\* ------------------------------------------------------------------

VARIABLES
    buf,        \* from_buffer's input, split into lines
    new_log,    \* the record being built
    line_no,    \* the index of the next line
    result,     \* None while the loop runs, then Some(Ok(log)) or Some(Err(error))
    call,       \* a call of a primitive on its own: [fn, arg]
    ret         \* None, then Some(what the call returned)

vars == <<buf, new_log, line_no, result, call, ret>>

\* a byte sequence that is not UTF-8, as one element of a line
InvalidByte == "0xFF"

\* str::from_utf8(line) succeeds
Utf8Ok(line) == \A k \in 1..Len(line) : line[k] # InvalidByte

\* the number of lines of the longest input
MaxLines == 3

\* the sequences over set of length 0..n
RECURSIVE SeqsUpTo(_, _)
SeqsUpTo(set, n) ==
    IF n = 0 THEN {<<>>}
    ELSE LET shorter == SeqsUpTo(set, n - 1)
         IN  shorter \cup {Append(q, x) : q \in {r \in shorter : Len(r) = n - 1}, x \in set}

\* tag ": " value
TagLine(tag, value) == tag \o <<":"," ">> \o value

QsoA1 == <<"1","4","2","5","0"," ","C","W"," ","2","0","2","1","-","0","6","-","1","2"," ","1","3","4","5"," ","W","1","A","W"," ","5","9","9"," ","0","0","1"," ","K","3","A","H"," ","5","7","9"," ","0","0","2">>

QsoB1 == <<"7","0","1","0"," ","P","H"," ","2","0","2","1","-","0","6","-","1","3"," ","0","9","0","5"," ","W","1","A","W"," ","M","A"," ","@","K","3","A","H","/","P"," ","C","T">>

QsoA2 == <<" ","2","8","4","0","0","\t","R","Y"," ","2","0","2","0","-","0","2","-","2","9"," ","2","3","5","9"," ","K","3","A","H"," ","5","N","N"," ","1","2"," "," ","W","2","A","B","C"," ","5","9"," ","M","A"," ">>

\* the lines the inputs of Spec are made of: contacts, lines that fail, an
\* empty line
LogCorpus ==
    { TagLine(<<"Q","S","O">>, QsoA1),
      TagLine(<<"Q","S","O">>, QsoB1),
      TagLine(<<"X","-","Q","S","O">>, QsoA2),
      TagLine(<<"X","-","Q","S","O">>, <<"1","4","2","5","0"," ","C","W"," ","2","0","2","1","-","0","6","-","3","1"," ","1","3","4","5"," ","W","1","A","W"," ","5","9","9"," ","0","0","1"," ","K","3","A","H"," ","5","7","9"," ","0","0","2">>),
      TagLine(<<"C","A","T","E","G","O","R","Y","-","B","A","N","D">>, <<"1","1","M">>),
      TagLine(<<"F","O","O">>, <<"b","a","r">>),
      <<>>,
      <<"Q","S","O">>,
      <<"A", "D", InvalidByte>> }

\* the lines the inputs of SpecHeader are made of: the tags that accumulate,
\* with values that need trimming, and tags the parser does not know
HeaderCorpus ==
    { TagLine(<<"A","D","D","R","E","S","S">>, <<" "," ","1"," ","M","a","i","n"," ","S","t"," ">>),
      TagLine(<<"A","D","D","R","E","S","S","-","C","I","T","Y">>, <<"N","e","w","i","n","g","t","o","n">>),
      TagLine(<<"S","O","A","P","B","O","X">>, <<"f","u","n">>),
      TagLine(<<"S","O","A","P","B","O","X">>, <<"\t","7","3"," ">>),
      TagLine(<<"O","P","E","R","A","T","O","R","S">>, <<"W","1","A","W",","," ","K","3","A","H"," ","W","2","A","B","C">>),
      TagLine(<<"O","P","E","R","A","T","O","R","S">>, <<"K","3","A","H"," ","\t"," ","N","1","X">>),
      TagLine(<<"F","O","O">>, <<"b","a","r">>),
      TagLine(<<"F","O","O">>, <<" ","b","a","z"," "," ">>),
      TagLine(<<"X","-","I","N","F","O">>, <<"b","a","r">>) }

InitDriver ==
    /\ new_log = CabrilloLog_new
    /\ line_no = 0
    /\ result = None
    /\ call = None
    /\ ret = None

Init ==
    /\ buf \in SeqsUpTo(LogCorpus, MaxLines)
    /\ InitDriver

InitHeader ==
    /\ buf \in SeqsUpTo(HeaderCorpus, MaxLines)
    /\ InitDriver

\* a loop that END-OF-LOG ends with the record built so far
ParseLine_stop ==
    /\ result = None
    /\ line_no < Len(buf)
    /\ IF ~Utf8Ok(buf[line_no + 1])
       THEN /\ result' = Some(Err(CabrilloError(<<>>, line_no, IoError)))
            /\ UNCHANGED <<new_log, line_no>>
       ELSE \E parsed \in {parse_line(new_log, line_no, buf[line_no + 1])} :
                IF parsed.ok /\ StartsWith(buf[line_no + 1], 1, <<"E","N","D","-","O","F","-","L","O","G">>)
                THEN /\ result' = Some(parsed)
                     /\ UNCHANGED <<new_log, line_no>>
                ELSE IF parsed.ok
                THEN /\ new_log' = parsed.v
                     /\ line_no' = line_no + 1
                     /\ UNCHANGED result
                ELSE /\ result' = Some(parsed)
                     /\ UNCHANGED <<new_log, line_no>>
    /\ UNCHANGED <<buf, call, ret>>

\* a loop that goes on to the next line after a line that cannot be parsed
ParseLine_skip ==
    /\ result = None
    /\ line_no < Len(buf)
    /\ IF ~Utf8Ok(buf[line_no + 1])
       THEN /\ result' = Some(Err(CabrilloError(<<>>, line_no, IoError)))
            /\ UNCHANGED <<new_log, line_no>>
       ELSE \E parsed \in {parse_line(new_log, line_no, buf[line_no + 1])} :
                /\ new_log' = IF parsed.ok THEN parsed.v ELSE new_log
                /\ line_no' = line_no + 1
                /\ UNCHANGED result
    /\ UNCHANGED <<buf, call, ret>>

\* one turn of from_buffer's loop (from_reader's is the same): decode the line,
\* parse it, and leave with the error or go on to the next line
ParseLine ==
    /\ result = None
    /\ line_no < Len(buf)
    /\ IF ~Utf8Ok(buf[line_no + 1])
       THEN /\ result' = Some(Err(CabrilloError(<<>>, line_no, IoError)))
            /\ UNCHANGED <<new_log, line_no>>
       ELSE \E parsed \in {parse_line(new_log, line_no, buf[line_no + 1])} :
                IF parsed.ok
                THEN /\ new_log' = parsed.v
                     /\ line_no' = line_no + 1
                     /\ UNCHANGED result
                ELSE /\ result' = Some(parsed)
                     /\ UNCHANGED <<new_log, line_no>>
    /\ UNCHANGED <<buf, call, ret>>

\* the loop is over: Ok(new_log)
Finish ==
    /\ result = None
    /\ line_no = Len(buf)
    /\ result' = Some(Ok(new_log))
    /\ UNCHANGED <<buf, new_log, line_no, call, ret>>

Next == ParseLine \/ Finish

Spec == Init /\ [][Next]_vars

SpecHeader == InitHeader /\ [][Next]_vars

\* the fields of a text joined by a separator
RECURSIVE Join(_, _)
Join(fields, sep) ==
    IF fields = <<>> THEN <<>>
    ELSE IF Len(fields) = 1 THEN fields[1]
    ELSE fields[1] \o sep \o Join(Tail(fields), sep)

\* the exchange of one side of a QSO line: report and exchange, or exchange alone
QsoExchanges ==
    { <<<<"5","9","9">>, <<"0","0","1">>>>, <<<<"5","9">>, <<"M","A">>>>, <<<<"5","N","N">>, <<"0","0","1">>>>, <<<<"0","0","9">>, <<"M","A">>>>,
      <<<<"M","A">>>>, <<<<"0","0","1">>>> }

\* the QSO values of SpecQso: every choice of frequency, mode, timestamp, calls
\* and exchanges, well formed or not, with plain or mixed white space
QsoValues ==
    { lead \o Join(<<frequency, mode, timestamp, call_sent>> \o sent
                   \o <<<<"@","K","3","A","H","/","P">>>> \o recvd, sep) :
        frequency \in {<<"1","4","2","5","0">>, <<"4","2","9","4","9","6","7","2","9","6">>},
        mode \in {<<"C","W">>, <<"D","G">>, <<"S","S","B">>},
        timestamp \in {<<"2","0","2","1","-","0","6","-","1","2"," ","1","3","4","5">>, <<"2","0","2","1","-","0","2","-","2","9"," ","1","3","4","5">>, <<"2","0","2","1","-","0","6","-","1","2"," ","3","4","5">>},
        call_sent \in {<<"W","1","A","W">>, <<"W","1">>},
        sent \in QsoExchanges,
        recvd \in QsoExchanges,
        sep \in {<<" ">>, <<"\t"," ">>},
        lead \in {<<>>, <<" ">>} }

\* the inputs of SpecQso: one QSO or X-QSO line, alone or after an empty line
InitQso ==
    /\ buf \in {before \o <<TagLine(tag, value)>> :
                   before \in {<<>>, <<<<>>>>},
                   tag \in {<<"Q","S","O">>, <<"X","-","Q","S","O">>},
                   value \in QsoValues}
    /\ InitDriver

SpecQso == InitQso /\ [][Next]_vars

\* ------------------------------------------------------------------
\* The primitives called on their own
\* ------------------------------------------------------------------

\* the longest text handed to SignalReport::from_str
MaxReportLen == 4

ReportAlphabet == Digits \cup {"a", "s", "d"}

InitSignalReport ==
    /\ \E n \in 0..MaxReportLen :
           call \in [fn : {"SignalReport::from_str"}, arg : [1..n -> ReportAlphabet]]
    /\ ret = None
    /\ buf = <<>> /\ new_log = CabrilloLog_new /\ line_no = 0 /\ result = None

CallSignalReport ==
    /\ ret = None
    /\ call.fn = "SignalReport::from_str"
    /\ ret' = Some(SignalReport_from_str(call.arg))
    /\ UNCHANGED <<buf, new_log, line_no, result, call>>

SpecSignalReport == InitSignalReport /\ [][CallSignalReport]_vars

\* the decimal digits of a natural number
RECURSIVE ToDigits(_)
ToDigits(n) ==
    LET d == <<"0","1","2","3","4","5","6","7","8","9">>[(n % 10) + 1]
    IN  IF n < 10 THEN <<d>> ELSE Append(ToDigits(n \div 10), d)

\* how far around each limit of a band the frequencies are taken
Margin == 2

Around(n) == {k \in (n - Margin)..(n + Margin) : k >= 0}

\* the frequencies handed to Band::try_from: around the limits of every band,
\* inside every band, around the light limit, and the ends of u32
BandFrequencies ==
    {Light, Khz(<<"0">>), Khz(<<"2","1","4","7","4","8","3","6","4","8">>), Khz(U32Max)}
    \cup {Khz(ToDigits(n)) :
            n \in Around(300000000) \cup UNION {
                Around(BandRanges[i][1]) \cup Around(BandRanges[i][2])
                \cup {(BandRanges[i][1] + BandRanges[i][2]) \div 2} :
                i \in 1..Len(BandRanges)}}

InitBand ==
    /\ call \in [fn : {"Band::try_from"}, arg : BandFrequencies]
    /\ ret = None
    /\ buf = <<>> /\ new_log = CabrilloLog_new /\ line_no = 0 /\ result = None

CallBandTryFrom ==
    /\ ret = None
    /\ call.fn = "Band::try_from"
    /\ ret' = Some(Band_try_from(call.arg))
    /\ UNCHANGED <<buf, new_log, line_no, result, call>>

SpecBand == InitBand /\ [][CallBandTryFrom]_vars

\* ------------------------------------------------------------------
\* Properties
\* ------------------------------------------------------------------

ReadabilityDigits == {"1", "2", "3", "4", "5"}

StrengthDigits == {"1", "2", "3", "4", "5", "6", "7", "8", "9"}

\* a text that is a signal report: "RS" or "RST" with R in 1..5, S in 1..9, T in 0..9
IsReport(t) ==
    /\ Len(t) \in {2, 3}
    /\ t[1] \in ReadabilityDigits
    /\ t[2] \in StrengthDigits
    /\ Len(t) = 3 => t[3] \in Digits

ReportOf(t) ==
    <<DigitValue(t[1]), DigitValue(t[2]), IF Len(t) = 3 THEN DigitValue(t[3]) ELSE 0>>

\* C5: SignalReport::from_str returns SignalReport(R, S, 0) for every "RS" and
\* SignalReport(R, S, T) for every "RST" with R in 1..5, S in 1..9, T in 0..9,
\* and a Parse error for every other text: one shorter than 2 or longer than 3
\* characters, one with a character that is no digit, one with a digit out of range.
C5_SignalReportParse ==
    (ret # None /\ call.fn = "SignalReport::from_str") =>
        IF IsReport(call.arg)
        THEN ret[1] = Ok(ReportOf(call.arg))
        ELSE ret[1] = Err(ParseError)

C5_Witness ==
    /\ ret # None /\ call.fn = "SignalReport::from_str"
    /\ \/ call.arg = <<"3","4">> /\ ret[1] = Ok(<<3, 4, 0>>)
       \/ call.arg = <<"5","9","9">> /\ ret[1] = Ok(<<5, 9, 9>>)

\* the bands' ranges share no frequency
RangesDisjoint ==
    \A i, j \in 1..Len(BandRanges) :
        i # j => (BandRanges[i][2] < BandRanges[j][1] \/ BandRanges[j][2] < BandRanges[i][1])

\* C6: Band::try_from maps Khz(n) to the band of any range that holds n (the
\* ranges are pairwise disjoint), maps every n >= 300,000,000 and Light to
\* Band::Light, and fails with a Parse error for every other n.
C6_BandOfFrequency ==
    (ret # None /\ call.fn = "Band::try_from") =>
        /\ RangesDisjoint
        /\ IF call.arg = Light THEN ret[1] = Ok("Light")
           ELSE LET digits == call.arg[2]
                    big == Len(digits) >= 10
                    n == IF big THEN 0 ELSE DecimalValue(digits)
                    inside == {i \in 1..Len(BandRanges) :
                                 ~big /\ BandRanges[i][1] <= n /\ n <= BandRanges[i][2]}
                IN  /\ \A i \in inside : ret[1] = Ok(BandRanges[i][3])
                    /\ (big \/ n >= 300000000) => ret[1] = Ok("Light")
                    /\ (~big /\ n < 300000000 /\ inside = {}) => ret[1] = Err(ParseError)

C6_Witness ==
    /\ ret # None /\ call.fn = "Band::try_from"
    /\ \/ call.arg = Khz(<<"1","4","3","5","0">>) /\ ret[1] = Ok("Band20M")
       \/ call.arg = Khz(<<"3","0","0","0","0","0","0","0","0">>) /\ ret[1] = Ok("Light")
       \/ call.arg = Khz(<<"1","4","3","5","1">>) /\ ret[1] = Err(ParseError)

\* the tag of a line, <<>> for a line without one
LineTag(line) ==
    IF Len(line) > 0 /\ Utf8Ok(line) /\ cabrillo_tag(line).ok
    THEN cabrillo_tag(line).tag ELSE <<>>

\* the value of a line that has a tag, as the handlers see it
LineValue(line) == Trim(cabrillo_tag(line).value)

\* the contacts of the lines of the given tag among the first n lines, in order
RECURSIVE ContactsOf(_, _)
ContactsOf(tag, n) ==
    IF n = 0 THEN <<>>
    ELSE IF LineTag(buf[n]) = tag
         THEN Append(ContactsOf(tag, n - 1), ParseQso(n - 1, tag, LineValue(buf[n])).v)
         ELSE ContactsOf(tag, n - 1)

\* C1: the contacts are the records of the QSO lines handled, one per line and
\* in input order, and the ignored contacts those of the X-QSO lines; a
\* successful parse returns the record with these lists for all lines of the input.
C1_ContactsPerLine ==
    /\ new_log.entries = ContactsOf(<<"Q","S","O">>, line_no)
    /\ new_log.ignored_entries = ContactsOf(<<"X","-","Q","S","O">>, line_no)
    /\ Len(new_log.entries) = Cardinality({i \in 1..line_no : LineTag(buf[i]) = <<"Q","S","O">>})
    /\ Len(new_log.ignored_entries)
         = Cardinality({i \in 1..line_no : LineTag(buf[i]) = <<"X","-","Q","S","O">>})
    /\ (result # None /\ result[1].ok) => (line_no = Len(buf) /\ result[1].v = new_log)

C1_Witness ==
    /\ result # None /\ result[1].ok
    /\ buf = <<TagLine(<<"Q","S","O">>, QsoB1), TagLine(<<"X","-","Q","S","O">>, QsoA2), TagLine(<<"Q","S","O">>, QsoA1)>>
    /\ Len(result[1].v.entries) = 2
    /\ result[1].v.entries[1].call_recvd = <<"@","K","3","A","H","/","P">>
    /\ result[1].v.entries[2].call_recvd = <<"K","3","A","H">>
    /\ Len(result[1].v.ignored_entries) = 1
    /\ result[1].v.ignored_entries[1].call_recvd = <<"W","2","A","B","C">>

\* ---- one QSO line (SpecQso) ----

\* the QSO line of the input, its index, its tag and its value
QsoIndex == Len(buf) - 1

QsoTag == cabrillo_tag(buf[Len(buf)]).tag

QsoValue == LineValue(buf[Len(buf)])

\* the line has been handled: the loop went past it or left with its error
QsoHandled == line_no = Len(buf) \/ (result # None /\ ~result[1].ok)

\* frequency, mode and timestamp of matched fields convert
FieldsConvert(fields) ==
    /\ FitsU32(fields[1])
    /\ \E p \in ModeTable : p[1] = fields[2]
    /\ NaiveDateTime_parse_from_str(fields[3]).ok

\* Format A (B) succeeds on the value: the grammar matches and the fields convert
FormatA == cabrillo_qso_format1(QsoValue)

FormatB == cabrillo_qso_format2(QsoValue)

FormatAOk == FormatA.ok /\ FieldsConvert(FormatA.out)

FormatBOk == FormatB.ok /\ FieldsConvert(FormatB.out)

\* the contacts stored, of either list
Stored == new_log.entries \o new_log.ignored_entries

\* C2: Format A is tried first and Format B on the same value when A fails, at
\* the grammar or at a conversion; the first that succeeds gives the one contact
\* appended; when both fail the result is a Parse error with the line's tag and
\* index and nothing is appended.
C2_FormatFallback ==
    QsoHandled =>
        IF FormatAOk
        THEN /\ Stored = <<parse_qso_format1(QsoIndex, QsoTag, QsoValue).v>>
             /\ (result # None => result[1].ok)
        ELSE IF FormatBOk
        THEN /\ Stored = <<parse_qso_format2(QsoIndex, QsoTag, QsoValue).v>>
             /\ (result # None => result[1].ok)
        ELSE /\ Stored = <<>>
             /\ result = Some(Err(CabrilloError(QsoTag, QsoIndex, ParseError)))

\* a line Format A rejects at the conversion of the mode and Format B cannot
\* save, one Format A rejects at the grammar and Format B accepts
C2_Witness ==
    /\ QsoHandled
    /\ \/ /\ ~FormatAOk /\ FormatBOk /\ QsoIndex = 1 /\ Len(Stored) = 1
          /\ Stored[1].exch_sent = <<"M","A">>
       \/ /\ FormatA.ok /\ ~FormatAOk /\ ~FormatBOk /\ result # None
          /\ result[1].e.tag = <<"X","-","Q","S","O">> /\ result[1].e.line = 1

\* C3: a report of a stored contact is present exactly when Format A matched
\* the line and the report-or-exchange token of that side is a signal report,
\* and is then that report; each side is decided by its own token; a token that
\* is no signal report fails nothing; under Format B both reports are absent.
C3_Reports ==
    QsoHandled =>
        IF FormatAOk
        THEN /\ Len(Stored) = 1
             /\ Stored[1].rst_sent =
                  (IF IsReport(FormatA.out[5]) THEN Some(ReportOf(FormatA.out[5])) ELSE None)
             /\ Stored[1].rst_recvd =
                  (IF IsReport(FormatA.out[8]) THEN Some(ReportOf(FormatA.out[8])) ELSE None)
        ELSE \A i \in 1..Len(Stored) :
                 Stored[i].rst_sent = None /\ Stored[i].rst_recvd = None

\* Format A with a report sent and none received
C3_Witness ==
    /\ QsoHandled /\ FormatAOk /\ Len(Stored) = 1
    /\ FormatA.out[5] = <<"5","9">> /\ FormatA.out[8] = <<"5","N","N">>
    /\ Stored[1].rst_sent = Some(<<5, 9, 0>>)
    /\ Stored[1].rst_recvd = None

\* C4: under Format A each exchange is the report-or-exchange token, one space
\* and the exchange token, whether or not the first is a signal report; under
\* Format B each exchange is the single exchange token.
C4_Exchanges ==
    QsoHandled =>
        IF FormatAOk
        THEN /\ Len(Stored) = 1
             /\ Stored[1].exch_sent = FormatA.out[5] \o <<" ">> \o FormatA.out[6]
             /\ Stored[1].exch_recvd = FormatA.out[8] \o <<" ">> \o FormatA.out[9]
        ELSE IF FormatBOk
        THEN /\ Len(Stored) = 1
             /\ Stored[1].exch_sent = FormatB.out[5]
             /\ Stored[1].exch_recvd = FormatB.out[7]
        ELSE Stored = <<>>

C4_Witness ==
    /\ QsoHandled /\ FormatAOk /\ Len(Stored) = 1
    /\ Stored[1].exch_sent = <<"5","9","9"," ","0","0","1">>
    /\ Stored[1].exch_recvd = <<"5","N","N"," ","0","0","1">>

\* ---- the header lines (SpecHeader) ----

\* the values, as the handlers see them, of the lines with a tag of the set
\* among the first n lines, in order
RECURSIVE ValuesOf(_, _)
ValuesOf(tags, n) ==
    IF n = 0 THEN <<>>
    ELSE IF LineTag(buf[n]) \in tags
         THEN Append(ValuesOf(tags, n - 1), LineValue(buf[n]))
         ELSE ValuesOf(tags, n - 1)

\* unset without a line, else the values joined by single newlines
Accumulated(values) ==
    IF values = <<>> THEN None ELSE Some(Join(values, <<"\n">>))

IsPrefix(a, b) == Len(a) <= Len(b) /\ SubSeq(b, 1, Len(a)) = a

\* a field that is set stays set and keeps its text as a prefix
Kept(before, after) ==
    before # None => (after # None /\ IsPrefix(before[1], after[1]))

C7_Fields ==
    /\ new_log.address = Accumulated(ValuesOf(AddressTags, line_no))
    /\ new_log.soapbox = Accumulated(ValuesOf({<<"S","O","A","P","B","O","X">>}, line_no))

C7_Kept ==
    /\ Kept(new_log.address, new_log'.address)
    /\ Kept(new_log.soapbox, new_log'.soapbox)

\* C7: address is unset while no ADDRESS-family line was handled and is
\* otherwise the values of these lines (as the handler sees them, trimmed) in
\* order of appearance joined by single newlines; the same for soapbox and the
\* SOAPBOX lines; no step shortens or replaces the text of either field.
C7_Accumulate == []C7_Fields /\ [][C7_Kept]_vars

C7_Witness ==
    /\ buf = <<TagLine(<<"A","D","D","R","E","S","S","-","C","I","T","Y">>, <<"N","e","w","i","n","g","t","o","n">>), TagLine(<<"S","O","A","P","B","O","X">>, <<"f","u","n">>),
               TagLine(<<"A","D","D","R","E","S","S">>, <<" "," ","1"," ","M","a","i","n"," ","S","t"," ">>)>>
    /\ line_no = 3
    /\ new_log.address = Some(<<"N","e","w","i","n","g","t","o","n","\n","1"," ","M","a","i","n"," ","S","t">>)
    /\ new_log.soapbox = Some(<<"f","u","n">>)

\* the pieces of an OPERATORS value: split on commas and spaces, each piece
\* trimmed, the empty ones dropped
RECURSIVE NonEmpty(_)
NonEmpty(pieces) ==
    IF pieces = <<>> THEN <<>>
    ELSE IF Trim(Head(pieces)) = <<>> THEN NonEmpty(Tail(pieces))
    ELSE <<Trim(Head(pieces))>> \o NonEmpty(Tail(pieces))

RECURSIVE OperatorsOf(_)
OperatorsOf(n) ==
    IF n = 0 THEN <<>>
    ELSE IF LineTag(buf[n]) = <<"O","P","E","R","A","T","O","R","S">>
         THEN OperatorsOf(n - 1) \o NonEmpty(SplitOperators(LineValue(buf[n])))
         ELSE OperatorsOf(n - 1)

\* C8: the operators are the tokens of the OPERATORS lines handled, line after
\* line in input order: each value split on commas and spaces, the empty tokens
\* dropped (none of the operators is empty), earlier operators and duplicates kept.
C8_Operators == new_log.operators = OperatorsOf(line_no)

\* ---- unknown tags ----

UnknownTagsOf(n) == {LineTag(buf[i]) : i \in 1..n} \ (KnownTags \cup {<<>>})

LastLineOf(tag, n) == CHOOSE i \in 1..n :
    LineTag(buf[i]) = tag /\ \A j \in (i + 1)..n : LineTag(buf[j]) # tag

\* no error comes from a line with an unknown tag
UnknownNeverFails ==
    (result # None /\ ~result[1].ok) => LineTag(buf[line_no + 1]) \in KnownTags \cup {<<>>}

\* C9 as stated: the map holds, for each unknown tag handled, the value of its
\* last line exactly as the tag grammar produced it.
C9_Verbatim ==
    /\ UnknownNeverFails
    /\ DOMAIN new_log.other_tags = UnknownTagsOf(line_no)
    /\ \A tag \in UnknownTagsOf(line_no) :
           new_log.other_tags[tag] = cabrillo_tag(buf[LastLineOf(tag, line_no)]).value

\* C9, amended: a line with an unknown tag never fails; the map's keys are the
\* unknown tags of the lines handled (a known tag adds none) and each holds the
\* value of the tag's last line with leading and trailing white space removed.
C9_UnknownTags ==
    /\ UnknownNeverFails
    /\ DOMAIN new_log.other_tags = UnknownTagsOf(line_no)
    /\ \A tag \in UnknownTagsOf(line_no) :
           new_log.other_tags[tag]
             = Trim(cabrillo_tag(buf[LastLineOf(tag, line_no)]).value)

C9_Witness ==
    /\ buf = <<TagLine(<<"F","O","O">>, <<"b","a","r">>), TagLine(<<"S","O","A","P","B","O","X">>, <<"f","u","n">>), TagLine(<<"F","O","O">>, <<" ","b","a","z"," "," ">>)>>
    /\ result # None /\ result[1].ok
    /\ DOMAIN result[1].v.other_tags = {<<"F","O","O">>}
    /\ result[1].v.other_tags[<<"F","O","O">>] = <<"b","a","z">>

\* ---- errors (Spec) ----

\* the lines of LogCorpus that cannot be handled
BadLines ==
    { TagLine(<<"X","-","Q","S","O">>, <<"1","4","2","5","0"," ","C","W"," ","2","0","2","1","-","0","6","-","3","1"," ","1","3","4","5"," ","W","1","A","W"," ","5","9","9"," ","0","0","1"," ","K","3","A","H"," ","5","7","9"," ","0","0","2">>),
      TagLine(<<"C","A","T","E","G","O","R","Y","-","B","A","N","D">>, <<"1","1","M">>),
      <<"Q","S","O">>,
      <<"A", "D", InvalidByte>> }

C10_Error ==
    (result # None /\ ~result[1].ok) =>
        LET e == result[1].e
            line == buf[e.line + 1]
        IN  /\ e.line = line_no /\ e.line < Len(buf)
            /\ line \in BadLines
            /\ \A i \in 1..e.line : buf[i] \notin BadLines
            /\ IF ~Utf8Ok(line) THEN e.kind = IoError /\ e.tag = <<>>
               ELSE IF ~cabrillo_tag(line).ok THEN e.kind = ParseError /\ e.tag = <<>>
               ELSE e.kind = ParseError /\ e.tag = cabrillo_tag(line).tag

C10_EmptyLine ==
    (result = None /\ line_no < Len(buf) /\ buf[line_no + 1] = <<>>) =>
        (new_log' = new_log /\ line_no' = line_no + 1 /\ result' = None)

\* C10: an error carries the zero-based index of the line that failed, the
\* first line of the input that cannot be handled, every line before it
\* counted, the empty ones too, which change nothing; it is a Parse error with
\* an empty tag when the tag grammar rejects the line and a Parse error with
\* the line's tag when the handler rejects the value.
C10_ErrorPosition == []C10_Error /\ [][C10_EmptyLine]_vars

C10_Witness ==
    /\ buf = << <<>>, TagLine(<<"F","O","O">>, <<"b","a","r">>), TagLine(<<"C","A","T","E","G","O","R","Y","-","B","A","N","D">>, <<"1","1","M">>) >>
    /\ result = Some(Err(CabrilloError(<<"C","A","T","E","G","O","R","Y","-","B","A","N","D">>, 2, ParseError)))

\* ------------------------------------------------------------------
\* Header tags, markers and the end of the loop
\* ------------------------------------------------------------------

\* the lines the inputs of SpecTags are made of: the markers, the debug flag,
\* the score, a plain field, and lines that fail in the grammar, in a handler
\* and in the decoding
TagCorpus ==
    { TagLine(<<"S","T","A","R","T","-","O","F","-","L","O","G">>, <<"2",".","0">>),
      TagLine(<<"S","T","A","R","T","-","O","F","-","L","O","G">>, <<"x">>),
      <<"E","N","D","-","O","F","-","L","O","G">>,
      TagLine(<<"D","E","B","U","G">>, <<>>),
      TagLine(<<"D","E","B","U","G">>, <<"n","o">>),
      TagLine(<<"C","L","A","I","M","E","D","-","S","C","O","R","E">>, <<"1","0","0">>),
      TagLine(<<"C","L","A","I","M","E","D","-","S","C","O","R","E">>, <<"a","b","c">>),
      TagLine(<<"C","L","A","I","M","E","D","-","S","C","O","R","E">>, <<"4","2","9","4","9","6","7","2","9","6">>),
      TagLine(<<"C","L","A","I","M","E","D","-","S","C","O","R","E">>, <<" ","+","0","0","7"," ">>),
      TagLine(<<"C","A","L","L","S","I","G","N">>, <<"W","1","A","W">>),
      TagLine(<<"C","E","R","T","I","F","I","C","A","T","E">>, <<"M","A","Y","B","E">>),
      <<"N","O","C","O","L","O","N">>,
      <<"A", "D", InvalidByte>> }

InitTags ==
    /\ buf \in SeqsUpTo(TagCorpus, MaxLines)
    /\ InitDriver

SpecTags == InitTags /\ [][Next]_vars

\* ---- the first error ----

\* the line cannot be handled from the record log
LineFails(log, n, line) == ~Utf8Ok(line) \/ ~parse_line(log, n, line).ok

\* the record after the first n lines, each applied to the record of the lines
\* before it; Err when one of them cannot be handled
RECURSIVE Applied(_)
Applied(n) ==
    IF n = 0 THEN Ok(CabrilloLog_new)
    ELSE LET before == Applied(n - 1)
         IN  IF ~before.ok THEN before
             ELSE IF LineFails(before.v, n - 1, buf[n]) THEN Err(ParseError)
             ELSE parse_line(before.v, n - 1, buf[n])

\* while the loop runs the record is the one of the lines before line_no, all
\* handled; an error is the one of line line_no, the first line that fails, and
\* carries no record; success means that no line fails
C11_State ==
    /\ Applied(line_no) = Ok(new_log)
    /\ result # None =>
         IF result[1].ok
         THEN line_no = Len(buf) /\ result[1] = Ok(new_log)
         ELSE /\ line_no < Len(buf)
              /\ LineFails(new_log, line_no, buf[line_no + 1])
              /\ DOMAIN result[1] = {"ok", "e"}
              /\ result[1].e.line = line_no

\* a step starts with no result and examines line line_no only; the step that
\* fails leaves the loop at once
C11_Step ==
    /\ result = None
    /\ (line_no < Len(buf) /\ LineFails(new_log, line_no, buf[line_no + 1]))
         => (result' # None /\ ~result'[1].ok)
    /\ line_no' \in {line_no, line_no + 1}

\* C11: the driver stops at the first line that fails: the error is that of
\* the lowest line that cannot be handled, no later line is examined or
\* applied, and the caller gets the error alone, without a record.
C11_FirstError == []C11_State /\ [][C11_Step]_vars

C11_Witness ==
    /\ Len(buf) = 3
    /\ line_no = 1
    /\ result # None /\ ~result[1].ok
    /\ new_log.debug
    /\ ~LineFails(new_log, 2, buf[3])

\* ---- CLAIMED-SCORE ----

\* the text is an unsigned integer of 32 bits: digits, a '+' allowed before
\* them, not above 4294967295
IsUnsigned(v) ==
    LET ds == IF v # <<>> /\ v[1] = "+" THEN Tail(v) ELSE v
    IN  /\ ds # <<>>
        /\ \A k \in 1..Len(ds) : ds[k] \in Digits
        /\ LET c == StripZeros(ds)
           IN  Len(c) < 10 \/ (Len(c) = 10 /\ DigitsLeq(c, <<"4","2","9","4","9","6","7","2","9","5">>))

\* the score a CLAIMED-SCORE value leaves in the record
ScoreOf(v) ==
    IF IsUnsigned(v)
    THEN Some(StripZeros(IF v[1] = "+" THEN Tail(v) ELSE v))
    ELSE None

\* C12: a CLAIMED-SCORE line never fails and never stops the loop; it sets the
\* score to the value when the value is an unsigned integer and unsets it
\* otherwise, whatever the score was; the other fields stay as they were.
C12_ClaimedScore ==
    [][(result = None /\ line_no < Len(buf)
          /\ LineTag(buf[line_no + 1]) = <<"C","L","A","I","M","E","D","-","S","C","O","R","E">>)
       => /\ result' = None
          /\ line_no' = line_no + 1
          /\ new_log' = [new_log EXCEPT
                           !.claimed_score = ScoreOf(LineValue(buf[line_no + 1]))]]_vars

C12_Witness ==
    /\ buf = << TagLine(<<"C","L","A","I","M","E","D","-","S","C","O","R","E">>, <<"1","0","0">>), TagLine(<<"C","L","A","I","M","E","D","-","S","C","O","R","E">>, <<"a","b","c">>),
                TagLine(<<"C","L","A","I","M","E","D","-","S","C","O","R","E">>, <<" ","+","0","0","7"," ">>) >>
    /\ line_no = 2
    /\ new_log.claimed_score = None

\* ---- scalar fields ----

\* the lines the inputs of SpecScalar are made of: a valid line of every tag
\* with a field of its own, two for CALLSIGN
ScalarCorpus ==
    { TagLine(<<"C","A","L","L","S","I","G","N">>, <<"W","1","A","W">>),
      TagLine(<<"C","A","L","L","S","I","G","N">>, <<"K","3","A","H">>),
      TagLine(<<"C","O","N","T","E","S","T">>, <<"A","R","R","L","-","D","X","-","C","W">>),
      TagLine(<<"C","A","T","E","G","O","R","Y","-","A","S","S","I","S","T","E","D">>, <<"N","O","N","-","A","S","S","I","S","T","E","D">>),
      TagLine(<<"C","A","T","E","G","O","R","Y","-","B","A","N","D">>, <<"2","0","M">>),
      TagLine(<<"C","A","T","E","G","O","R","Y","-","M","O","D","E">>, <<"S","S","B">>),
      TagLine(<<"C","A","T","E","G","O","R","Y","-","O","P","E","R","A","T","O","R">>, <<"S","I","N","G","L","E","-","O","P">>),
      TagLine(<<"C","A","T","E","G","O","R","Y","-","P","O","W","E","R">>, <<"Q","R","P">>),
      TagLine(<<"C","A","T","E","G","O","R","Y","-","S","T","A","T","I","O","N">>, <<"F","I","X","E","D">>),
      TagLine(<<"C","A","T","E","G","O","R","Y","-","T","I","M","E">>, <<"6","-","H","O","U","R","S">>),
      TagLine(<<"C","A","T","E","G","O","R","Y","-","T","R","A","N","S","M","I","T","T","E","R">>, <<"O","N","E">>),
      TagLine(<<"C","A","T","E","G","O","R","Y","-","O","V","E","R","L","A","Y">>, <<"R","O","O","K","I","E">>),
      TagLine(<<"C","E","R","T","I","F","I","C","A","T","E">>, <<"Y","E","S">>),
      TagLine(<<"C","L","U","B">>, <<"Y","a","n","k","e","e"," ","C","l","i","p","p","e","r">>),
      TagLine(<<"C","R","E","A","T","E","D","-","B","Y">>, <<"N","1","M","M">>),
      TagLine(<<"E","M","A","I","L">>, <<"a","@","b",".","o","r","g">>),
      TagLine(<<"G","R","I","D","-","L","O","C","A","T","O","R">>, <<"F","N","2","0","i","b">>),
      TagLine(<<"L","O","C","A","T","I","O","N">>, <<"C","T">>),
      TagLine(<<"N","A","M","E">>, <<"H","i","r","a","m">>) }

InitScalar ==
    /\ buf \in SeqsUpTo(ScalarCorpus, MaxLines)
    /\ InitDriver

SpecScalar == InitScalar /\ [][Next]_vars

\* the field of the record each scalar tag stands for, and the value a valid
\* line of the tag gives it
ScalarFields ==
    { <<<<"C","A","L","L","S","I","G","N">>, "callsign">>, <<<<"C","O","N","T","E","S","T">>, "contest">>,
      <<<<"C","A","T","E","G","O","R","Y","-","A","S","S","I","S","T","E","D">>, "category_assisted">>,
      <<<<"C","A","T","E","G","O","R","Y","-","B","A","N","D">>, "category_band">>, <<<<"C","A","T","E","G","O","R","Y","-","M","O","D","E">>, "category_mode">>,
      <<<<"C","A","T","E","G","O","R","Y","-","O","P","E","R","A","T","O","R">>, "category_operator">>,
      <<<<"C","A","T","E","G","O","R","Y","-","P","O","W","E","R">>, "category_power">>,
      <<<<"C","A","T","E","G","O","R","Y","-","S","T","A","T","I","O","N">>, "category_station">>,
      <<<<"C","A","T","E","G","O","R","Y","-","T","I","M","E">>, "category_time">>,
      <<<<"C","A","T","E","G","O","R","Y","-","T","R","A","N","S","M","I","T","T","E","R">>, "category_transmitter">>,
      <<<<"C","A","T","E","G","O","R","Y","-","O","V","E","R","L","A","Y">>, "category_overlay">>,
      <<<<"C","E","R","T","I","F","I","C","A","T","E">>, "certificate">>, <<<<"C","L","U","B">>, "club">>,
      <<<<"C","R","E","A","T","E","D","-","B","Y">>, "created_by">>, <<<<"E","M","A","I","L">>, "email">>,
      <<<<"G","R","I","D","-","L","O","C","A","T","O","R">>, "grid_locator">>, <<<<"L","O","C","A","T","I","O","N">>, "location">>,
      <<<<"N","A","M","E">>, "name">> }

ScalarValue(tag, value) ==
    CASE tag = <<"C","A","T","E","G","O","R","Y","-","A","S","S","I","S","T","E","D">> -> value = <<"A","S","S","I","S","T","E","D">>
      [] tag = <<"C","A","T","E","G","O","R","Y","-","B","A","N","D">> -> Band_from_str(value).v
      [] tag = <<"C","A","T","E","G","O","R","Y","-","M","O","D","E">> -> Mode_from_str(value).v
      [] tag = <<"C","A","T","E","G","O","R","Y","-","O","P","E","R","A","T","O","R">> -> FromStrTable(OperatorCategoryTable, value).v
      [] tag = <<"C","A","T","E","G","O","R","Y","-","P","O","W","E","R">> -> FromStrTable(PowerCategoryTable, value).v
      [] tag = <<"C","A","T","E","G","O","R","Y","-","S","T","A","T","I","O","N">> -> FromStrTable(StationCategoryTable, value).v
      [] tag = <<"C","A","T","E","G","O","R","Y","-","T","I","M","E">> -> FromStrTable(TimeCategoryTable, value).v
      [] tag = <<"C","A","T","E","G","O","R","Y","-","T","R","A","N","S","M","I","T","T","E","R">> -> FromStrTable(TransmitterCategoryTable, value).v
      [] tag = <<"C","A","T","E","G","O","R","Y","-","O","V","E","R","L","A","Y">> -> FromStrTable(OverlayCategoryTable, value).v
      [] tag = <<"C","E","R","T","I","F","I","C","A","T","E">> -> value = <<"Y","E","S">>
      [] OTHER -> value

\* the fields of the tags in the set hold the value of the tag's last line
FieldsSet(pairs) ==
    \A p \in pairs :
        (\E i \in 1..line_no : LineTag(buf[i]) = p[1]) =>
            new_log[p[2]] =
                Some(ScalarValue(p[1], LineValue(buf[LastLineOf(p[1], line_no)])))

\* C13: after a line of a scalar tag is handled, the tag's field holds the
\* value of that line, so that in the end it holds the value of the tag's last
\* line; EMAIL sets email and GRID-LOCATOR sets grid_locator.
C13_ScalarFields == FieldsSet(ScalarFields)

\* the same without EMAIL and GRID-LOCATOR
C13_OtherFields ==
    FieldsSet({p \in ScalarFields : p[1] \notin {<<"E","M","A","I","L">>, <<"G","R","I","D","-","L","O","C","A","T","O","R">>}})

\* ---- modes ----

ModeLetters == {"C", "W", "D", "G", "F", "M", "P", "H", "R", "Y"}

\* the tokens handed to CATEGORY-MODE: every pair of the letters of the short
\* tokens, the long tokens, and texts that are no mode
ModeTokens ==
    {<<a, b>> : a \in ModeLetters, b \in ModeLetters}
    \cup {<<"S","S","B">>, <<"R","T","T","Y">>, <<"D","I","G","I">>, <<"M","I","X","E","D">>, <<"D","I","G","I","T","A","L">>, <<"c","w">>, <<>>}

\* QSO values of both formats with the mode token in the second field
ModeQsoValues ==
    {<<"1","4","2","5","0"," ">> \o mode \o rest :
        mode \in {<<"C","W">>, <<"P","H">>, <<"F","M">>, <<"R","Y">>, <<"D","G">>, <<"S","S","B">>, <<"M","I","X","E","D">>, <<"G","D">>},
        rest \in {<<" ","2","0","2","1","-","0","6","-","1","2"," ","1","3","4","5"," ","W","1","A","W"," ","5","9","9"," ","0","0","1"," ","K","3","A","H"," ","5","7","9"," ","0","0","2">>,
                  <<" ","2","0","2","1","-","0","6","-","1","2"," ","1","3","4","5"," ","W","1","A","W"," ","M","A"," ","K","3","A","H"," ","C","T">>}}

\* the inputs of SpecMode: one CATEGORY-MODE line or one QSO line
InitMode ==
    /\ buf \in {<<TagLine(<<"C","A","T","E","G","O","R","Y","-","M","O","D","E">>, token)>> : token \in ModeTokens}
               \cup {<<TagLine(<<"Q","S","O">>, value)>> : value \in ModeQsoValues}
    /\ InitDriver

SpecMode == InitMode /\ [][Next]_vars

\* the mapping of the mode tokens as stated
ClaimedModes ==
    { <<<<"C","W">>, "Cw">>, <<<<"F","M">>, "Fm">>, <<<<"P","H">>, "Phone">>, <<<<"S","S","B">>, "Phone">>,
      <<<<"R","Y">>, "Rtty">>, <<<<"R","T","T","Y">>, "Rtty">>, <<<<"D","G">>, "Digital">>,
      <<<<"D","I","G","I">>, "Digital">>, <<<<"M","I","X","E","D">>, "Mixed">> }

ClaimedMode(token) == (CHOOSE p \in ClaimedModes : p[1] = token)[2]

IsClaimedMode(token) == \E p \in ClaimedModes : p[1] = token

\* the second field of a QSO value whose fields a single space separates
ModeField(value) ==
    LET i == Find(value, 1, {" "})
    IN  Slice(value, i + 1, Find(value, i + 1, {" "}))

\* the outcome of the one line of the input, once it is there: handled, or the
\* Parse error of the line's tag
ModeHandled == line_no = 1

ModeRejected ==
    result = Some(Err(CabrilloError(LineTag(buf[1]), 0, ParseError)))

\* C14: CATEGORY-MODE takes exactly the tokens of the mapping and sets the mode
\* they map to, every other token is a Parse error; a QSO line whose mode is
\* one of CW, PH, FM, RY, DG gives a contact with the mapped mode.
C14_ModeMapping ==
    LET value == LineValue(buf[1])
    IN  IF LineTag(buf[1]) = <<"C","A","T","E","G","O","R","Y","-","M","O","D","E">>
        THEN /\ ModeHandled =>
                  /\ IsClaimedMode(value)
                  /\ new_log.category_mode = Some(ClaimedMode(value))
             /\ (result # None /\ ~result[1].ok) =>
                  ~IsClaimedMode(value) /\ ModeRejected
        ELSE /\ ModeHandled =>
                  /\ ModeField(value) \in {<<"C","W">>, <<"P","H">>, <<"F","M">>, <<"R","Y">>, <<"D","G">>}
                  /\ Len(new_log.entries) = 1
                  /\ new_log.entries[1].mode = ClaimedMode(ModeField(value))
             /\ (result # None /\ ~result[1].ok) =>
                  /\ ModeField(value) \notin {<<"C","W">>, <<"P","H">>, <<"F","M">>, <<"R","Y">>, <<"D","G">>}
                  /\ ModeRejected

\* ---- the tag grammar on its own ----

\* the longest generated line handed to cabrillo_tag
MaxTagLineLen == 3

TagLineAlphabet == {"A", "-", ":", " ", "a", "\n"}

\* the lines handed to cabrillo_tag: every short text over the alphabet, and
\* lines around the two forms
TagLines ==
    UNION {[1..n -> TagLineAlphabet] : n \in 0..MaxTagLineLen}
    \cup {<<"V","E","R","S","I","O","N",":"," ","2",".","0">>, <<"V","E","R","S","I","O","N",":"," ","2",".","0","\n">>, <<"X","-","A","'","B"," ","1",":"," ","v",":"," ","w">>, <<"C","A","L","L","S","I","G","N">>,
          <<"C","A","L","L","S","I","G","N"," ","W","1","A","W">>, <<"C","A","L","L","S","I","G","N",":","W","1","A","W">>, <<"E","N","D","-","O","F","-","L","O","G">>, <<"E","N","D","-","O","F","-","L","O","G",":"," ">>,
          <<"E","N","D","-","O","F","-","L","O","G",":"," ","x">>, <<"E","N","D","-","O","F","-","L","O","G",":">>, <<"E","N","D","-","O","F","-","L","O">>, <<"E","N","D","-","O","F","-","L","O","G","X">>,
          <<"E","N","D","-","O","F","-","L","O","G"," ","X">>, <<"E","N","D","-","O","F","-","L","O","G","\n">>}

InitTagGrammar ==
    /\ call \in [fn : {"cabrillo_tag"}, arg : TagLines]
    /\ ret = None
    /\ buf = <<>> /\ new_log = CabrilloLog_new /\ line_no = 0 /\ result = None

CallTagGrammar ==
    /\ ret = None
    /\ call.fn = "cabrillo_tag"
    /\ ret' = Some(cabrillo_tag(call.arg))
    /\ UNCHANGED <<buf, new_log, line_no, result, call>>

SpecTagGrammar == InitTagGrammar /\ [][CallTagGrammar]_vars

\* the first form: where the run of tag characters that starts the line ends,
\* when it is not empty and colon-space follows it; 0 otherwise
TagRunEnd(line) ==
    LET j == RunEnd(line, 1, UpperCase \cup Digits \cup {"-", "'", " "})
    IN  IF j > 1 /\ StartsWith(line, j, <<":"," ">>) THEN j ELSE 0

\* what the grammar gives for a line, as stated: the two forms, and an error
\* for every other line
TagGrammarStated(line) ==
    IF TagRunEnd(line) # 0
    THEN [ok |-> TRUE, tag |-> Slice(line, 1, TagRunEnd(line)),
          value |-> Slice(line, TagRunEnd(line) + 2,
                          Find(line, TagRunEnd(line) + 2, {"\n"}))]
    ELSE IF line = <<"E","N","D","-","O","F","-","L","O","G">>
    THEN [ok |-> TRUE, tag |-> <<"E","N","D","-","O","F","-","L","O","G">>, value |-> <<>>]
    ELSE [ok |-> FALSE]

\* C15: the tag grammar takes a line in two forms only: a run of tag characters
\* followed by colon-space, giving the run and the rest of the line, or the
\* line END-OF-LOG, giving the tag and an empty value; every other line that
\* is not empty is an error.
C15_TagGrammar ==
    (ret # None /\ call.arg # <<>>) => ret[1] = TagGrammarStated(call.arg)

\* ---- the grid locator grammar on its own ----

\* the texts handed to cabrillo_grid_locator: a first pair, digits, a third
\* pair or none, and what follows it, each well formed or not
GridTexts ==
    {field \o square \o subsquare \o extended :
        field \in {<<"F","N">>, <<"A","R">>, <<"a","r">>, <<"A","z">>, <<"a","S">>, <<"R","1">>},
        square \in {<<"2","0">>, <<"3","4">>, <<"9">>, <<"3","x">>},
        subsquare \in {<<>>, <<"i","b">>, <<"i","d">>, <<"x","x">>, <<"s","x">>, <<"a","y">>, <<"i">>, <<"i","1">>},
        extended \in {<<>>, <<"1","1">>, <<"0","0","x","x">>, <<"1">>, <<"1","a">>}}
    \cup {<<>>, <<"a","s","d","f">>, <<"F","N","2","0","i","b"," ">>, <<" ","F","N","2","0","i","b">>}

InitGrid ==
    /\ call \in [fn : {"cabrillo_grid_locator"}, arg : GridTexts]
    /\ ret = None
    /\ buf = <<>> /\ new_log = CabrilloLog_new /\ line_no = 0 /\ result = None

CallGridLocator ==
    /\ ret = None
    /\ call.fn = "cabrillo_grid_locator"
    /\ ret' = Some(cabrillo_grid_locator(call.arg))
    /\ UNCHANGED <<buf, new_log, line_no, result, call>>

SpecGrid == InitGrid /\ [][CallGridLocator]_vars

\* the letters a-x of the third pair
SubsquareLetters ==
    {"a","b","c","d","e","f","g","h","i","j","k","l","m","n","o","p","q","r",
     "s","t","u","v","w","x"}

\* a grid locator as stated: two letters A-R in either case, two digits, then
\* two letters a-x or nothing, then two more digits or nothing
GridLocatorStated(s) ==
    /\ Len(s) \in {4, 6, 8}
    /\ AllIn(s, 1, 2, GridLetters)
    /\ AllIn(s, 3, 2, Digits)
    /\ Len(s) >= 6 => AllIn(s, 5, 2, SubsquareLetters)
    /\ Len(s) = 8 => AllIn(s, 7, 2, Digits)

\* C16: the grid locator grammar accepts a text as a whole, and exactly the
\* texts of two letters A-R in either case and two digits, which two letters
\* a-x may follow, which two more digits may follow.
C16_GridLocator ==
    ret # None => (ret[1] <=> GridLocatorStated(call.arg))

\* ---- the markers ----

\* the record of the first n lines with the END-OF-LOG lines left out
RECURSIVE WithoutEndOfLog(_)
WithoutEndOfLog(n) ==
    IF n = 0 THEN CabrilloLog_new
    ELSE IF LineTag(buf[n]) = <<"E","N","D","-","O","F","-","L","O","G">> THEN WithoutEndOfLog(n - 1)
    ELSE parse_line(WithoutEndOfLog(n - 1), n - 1, buf[n]).v

\* the record is that of the lines handled other than END-OF-LOG, wherever the
\* END-OF-LOG lines are; the version is 3.0 while no START-OF-LOG line was
\* handled; success comes at the end of the input, with the record
C17_State ==
    /\ new_log = WithoutEndOfLog(line_no)
    /\ (\A i \in 1..line_no : LineTag(buf[i]) # <<"S","T","A","R","T","-","O","F","-","L","O","G">>)
         => new_log.version = F32(FALSE, <<"3">>, <<"0">>)
    /\ (result # None /\ result[1].ok)
         => (line_no = Len(buf) /\ result[1] = Ok(new_log))

\* an END-OF-LOG line changes nothing and the loop goes on; a START-OF-LOG line
\* that is handled changes the version only, to the number of its value
C17_Step ==
    (result = None /\ line_no < Len(buf)) =>
        /\ LineTag(buf[line_no + 1]) = <<"E","N","D","-","O","F","-","L","O","G">> =>
             (new_log' = new_log /\ line_no' = line_no + 1 /\ result' = None)
        /\ (LineTag(buf[line_no + 1]) = <<"S","T","A","R","T","-","O","F","-","L","O","G">> /\ result' = None) =>
             new_log' = [new_log EXCEPT
                           !.version = ParseF32(LineValue(buf[line_no + 1])).v]

\* C17: END-OF-LOG does not end the loop: its line leaves the record as it
\* was, the lines after it are handled like the lines before it, and an input
\* without a failing line ends in success at its last line with the record of
\* all its lines; START-OF-LOG is taken at any position and sets the version
\* only, which is 3.0 without it.
C17_Markers == []C17_State /\ [][C17_Step]_vars

C17_Witness ==
    /\ buf = << TagLine(<<"D","E","B","U","G">>, <<"n","o">>), <<"E","N","D","-","O","F","-","L","O","G">>, TagLine(<<"S","T","A","R","T","-","O","F","-","L","O","G">>, <<"2",".","0">>) >>
    /\ result # None /\ result[1].ok
    /\ result[1].v.version = F32(FALSE, <<"2">>, <<"0">>)
    /\ result[1].v.debug

\* ---- the debug flag ----

\* the flag is set exactly when a DEBUG line was handled
C18_State ==
    new_log.debug <=> \E i \in 1..line_no : LineTag(buf[i]) = <<"D","E","B","U","G">>

\* the flag stays set, and only a DEBUG line changes it
C18_Step ==
    /\ new_log.debug => new_log'.debug
    /\ new_log'.debug # new_log.debug => LineTag(buf[line_no + 1]) = <<"D","E","B","U","G">>

\* C18: the debug flag is false in a new record, true once a DEBUG line was
\* handled, whatever its value, and true from then on; no other line changes
\* it.
C18_DebugFlag == []C18_State /\ [][C18_Step]_vars

C18_Witness ==
    /\ buf = << TagLine(<<"D","E","B","U","G">>, <<"n","o">>), TagLine(<<"D","E","B","U","G">>, <<>>), <<"E","N","D","-","O","F","-","L","O","G">> >>
    /\ line_no = 3
    /\ new_log.debug
====
